---- MODULE Spec2Model ----
(***************************************************************************)
(* Model of the Type D planet AI (src/src/planet.rs) and of the planet     *)
(* construction (src/src/lib.rs).                                          *)
(*                                                                         *)
(* The clock of the source is SystemTime, read in nanoseconds.  A clock    *)
(* reading of the model is a record [secs, nanos], the time since the      *)
(* planet was created, and a Duration is a record of the same shape.  The  *)
(* clock actions (Tick, ClockBack, TickShift) move the clock by any        *)
(* Duration; each specification draws the steps from a small set that      *)
(* holds whole seconds and steps of a microsecond and less.                *)
(*                                                                         *)
(* Scores are f32 in the source and in the model: a score is a record      *)
(* [m, e] that stands for m * 2^e, and every operation on scores (the      *)
(* conversion of a Duration by as_secs_f32, the decay, the cost, the sum   *)
(* and the division of avg_score, the tolerance and the grant test) is     *)
(* computed with the roundings of f32.                                     *)
(*                                                                         *)
(* A handler reads the clock 1 + 2 * len times: SystemTime::now() for the  *)
(* timestamp update, and one elapsed() per record in the decay pass and in *)
(* active_explorers.  GenerateFairShare takes the order in which the       *)
(* HashMap is iterated and the readings of the 2 * len elapsed() calls:    *)
(* on a clock that runs while the request is handled each reading is a     *)
(* little later than the one before, and on a wall clock that is set       *)
(* while the request is handled a reading can lie before an earlier one.   *)
(***************************************************************************)
EXTENDS Integers, FiniteSets, Sequences

VARIABLES
    limit_mode,      \* AI.limit_mode: "None" or "FairShare"
    explorer_stats,  \* AI.explorer_stats: explorer id -> [score, last_req]
    cells,           \* PlanetState energy cells: index -> charged?
    now,             \* the system clock (SystemTime::now()): [secs, nanos]
    msg,             \* the message handled by the latest step
    response,        \* what the handler of the latest step returned
    denied,          \* history: the explorers the admission controller has refused
    rocket,          \* PlanetState rocket: "None" or "Rocket"
    unspent,         \* history: deliveries that charged a cell minus granted requests
    reads            \* history: what the latest admission read, the clock
                     \* readings of the decay pass and of the active count
                     \* (per record), the sum of avg_score and the value
                     \* active_explorers() returned

vars == <<limit_mode, explorer_stats, cells, now, msg, response, denied,
          rocket, unspent, reads>>

(* ------------------------------ bounds --------------------------------- *)

\* The clock runs from 0 s to MaxTime s, and its nanosecond part stays
\* within MaxNanos.
MaxTime == 3
MaxNanos == 800
\* A generation request is not issued once the requester's score would pass
\* the cap of the specification, in units of 0.5: MaxScore when every kind
\* of message is handled, MaxScoreFair when FairShare requests contend,
\* MaxScoreTwo in the two-explorer scenarios (5 requests of one explorer).
MaxScore == 2
MaxScoreFair == 3
MaxScoreTwo == 10
\* Under a clock that is set back by a second while a request is handled:
\* the cap on the scores, and the second at which the run of the clock ends.
MaxScoreBack == 2
MaxTimeBack == 3
\* One explorer among four that have fallen silent: the cap on the score of
\* the one (2 consecutive requests), and the number of cells that are
\* charged at a time.
MaxScoreSole == 4
MaxChargedSole == 2
\* Under a clock that can be set back and forth: the cap on the scores and
\* the run of the clock, from 0 ns to MaxNanosClock ns, and the number of
\* cells that are charged.
MaxScoreClock == 4
MaxNanosClock == 200
MaxChargedClock == 3
\* In the runs without an end: the cap on the scores, and the nanosecond
\* part of the age of a record.
MaxScoreStarve == 3
MaxNanosStarve == 400

\* The explorers that send requests, and the two of the two-explorer scenarios.
Explorers == {1, 2, 3}
TwoExplorers == {1, 2}

(* ------------------------------- time ---------------------------------- *)

NANOS_PER_SEC == 1000000000

\* Duration::new(secs, nanos), nanos < NANOS_PER_SEC.
Duration(secs, nanos) == [secs |-> secs, nanos |-> nanos]

\* A SystemTime: the time since the planet was created (negative secs for a
\* time before it).
SystemTime(secs, nanos) == [secs |-> secs, nanos |-> nanos]

\* Ord of SystemTime and of Duration.
TimeLt(a, b) == a.secs < b.secs \/ (a.secs = b.secs /\ a.nanos < b.nanos)
TimeLeq(a, b) == ~TimeLt(b, a)

\* SystemTime + Duration.
TimeAdd(t, d) ==
    LET n == t.nanos + d.nanos
    IN  IF n >= NANOS_PER_SEC
        THEN [secs |-> t.secs + d.secs + 1, nanos |-> n - NANOS_PER_SEC]
        ELSE [secs |-> t.secs + d.secs, nanos |-> n]

\* SystemTime - Duration, and the Duration between two times a >= b.
TimeSub(a, b) ==
    IF a.nanos >= b.nanos
    THEN [secs |-> a.secs - b.secs, nanos |-> a.nanos - b.nanos]
    ELSE [secs |-> a.secs - b.secs - 1,
          nanos |-> a.nanos + NANOS_PER_SEC - b.nanos]

(* --------------------------- program constants ------------------------- *)

\* PlanetType::D has 5 energy cells.
NumCells == 5
CellIdx == 0..(NumCells - 1)

\* AI::CONTENTION_WINDOW = Duration::from_secs(3).
CONTENTION_WINDOW == Duration(3, 0)
\* AI::INACTIVE_TIMESPAN = Duration::new(CONTENTION_WINDOW.as_secs(), 0).
INACTIVE_TIMESPAN == Duration(CONTENTION_WINDOW.secs, 0)

\* Mutant of gen_rules: Hydrogen is not configured.
gen_rules_NoHydrogen == {"Carbon", "Silicon", "Oxygen"}

\* create_planet's gen_rules and comb_rules.
gen_rules == {"Carbon", "Silicon", "Oxygen", "Hydrogen"}
comb_rules == {}

(* f32 arithmetic.  An f32 is held as [m, e] with value m * 2^e: 2^23 <= m <
   2^24 (24 significant bits) for a positive number, the mantissa negated for
   a negative one, and [m |-> 0, e |-> 0] for zero.  Every operation rounds
   to nearest, ties to even, as the hardware does.  The values of the model
   stay far from the subnormal range and from overflow. *)

TwoTo23 == 8388608
TwoTo24 == 16777216

F32Zero == [m |-> 0, e |-> 0]

\* -a and |a|.
F32Neg(a) == [m |-> 0 - a.m, e |-> a.e]
F32Abs(a) == IF a.m < 0 THEN F32Neg(a) ELSE a

\* n rounded to the nearest multiple of 2^k, ties to even, divided by 2^k.
RoundShift(n, k) ==
    LET d == 2^k
        q == n \div d
        r == n % d
    IN  IF 2 * r > d \/ (2 * r = d /\ q % 2 = 1) THEN q + 1 ELSE q

\* The f32 nearest to n * 2^e, for an integer 0 <= n < 2^30.
F32Norm(n, e) ==
    IF n = 0 THEN F32Zero
    ELSE IF n < TwoTo24
    THEN LET k == CHOOSE j \in 0..23 : n * 2^j >= TwoTo23
         IN  [m |-> n * 2^k, e |-> e - k]
    ELSE LET k == CHOOSE j \in 1..7 : n \div 2^j < TwoTo24
             q == RoundShift(n, k)
         IN  IF q = TwoTo24 THEN [m |-> TwoTo23, e |-> e + k + 1]
                            ELSE [m |-> q, e |-> e + k]

\* `n as f32`, for an integer 0 <= n < 2^30.
F32Of(n) == F32Norm(n, 0)

\* a < b for a, b >= 0.
MagLt(a, b) ==
    IF b.m = 0 THEN FALSE
    ELSE IF a.m = 0 THEN TRUE
    ELSE a.e < b.e \/ (a.e = b.e /\ a.m < b.m)

\* a < b and a <= b.
F32Lt(a, b) ==
    IF a.m < 0
    THEN b.m >= 0 \/ MagLt(F32Neg(b), F32Neg(a))
    ELSE b.m >= 0 /\ MagLt(a, b)
F32Leq(a, b) == ~F32Lt(b, a)

\* n \div 2^d with a sticky last bit: the bit is set when a one was shifted
\* out, so that the rounding that follows sees the lost part.
StickyShift(n, d) ==
    IF d >= 28 THEN 1
    ELSE LET q == n \div 2^d
         IN  IF n % 2^d # 0 /\ q % 2 = 0 THEN q + 1 ELSE q

\* a + b for a, b > 0.  The smaller operand is aligned to the larger one
\* with three further bits (guard, round, sticky).
MagAdd(a, b) ==
    LET hi == IF MagLt(a, b) THEN b ELSE a
        lo == IF MagLt(a, b) THEN a ELSE b
    IN  F32Norm(hi.m * 8 + StickyShift(lo.m * 8, hi.e - lo.e), hi.e - 3)

\* a - b for a >= b > 0.
MagSub(a, b) ==
    F32Norm(a.m * 8 - StickyShift(b.m * 8, a.e - b.e), a.e - 3)

\* a + b.
F32Add(a, b) ==
    IF a.m = 0 THEN b
    ELSE IF b.m = 0 THEN a
    ELSE IF (a.m < 0) = (b.m < 0)
    THEN LET s == MagAdd(F32Abs(a), F32Abs(b))
         IN  IF a.m < 0 THEN F32Neg(s) ELSE s
    ELSE IF MagLt(F32Abs(a), F32Abs(b))
    THEN LET s == MagSub(F32Abs(b), F32Abs(a))
         IN  IF b.m < 0 THEN F32Neg(s) ELSE s
    ELSE LET s == MagSub(F32Abs(a), F32Abs(b))
         IN  IF a.m < 0 THEN F32Neg(s) ELSE s

\* a - b.
F32Sub(a, b) == F32Add(a, F32Neg(b))

\* f32::max(a, b).
F32Max(a, b) == IF F32Lt(a, b) THEN b ELSE a

\* a * b for a, b > 0.  The 48-bit product of the two mantissas is formed in
\* two 24-bit halves.
MagMul(a, b) ==
    LET ah == a.m \div 4096
        al == a.m % 4096
        bh == b.m \div 4096
        bl == b.m % 4096
        mid == ah * bl + al * bh
        low == (mid % 4096) * 4096 + al * bl
        high == ah * bh + (mid \div 4096) + (low \div TwoTo24)
        low24 == low % TwoTo24
        wide == high >= TwoTo23
        q == IF wide THEN high ELSE 2 * high + (low24 \div TwoTo23)
        r == IF wide THEN low24 ELSE low24 % TwoTo23
        half == IF wide THEN TwoTo23 ELSE TwoTo23 \div 2
        u == IF r > half \/ (r = half /\ q % 2 = 1) THEN q + 1 ELSE q
        e == a.e + b.e + (IF wide THEN 24 ELSE 23)
    IN  IF u = TwoTo24 THEN [m |-> TwoTo23, e |-> e + 1]
                       ELSE [m |-> u, e |-> e]

\* a * b.
F32Mul(a, b) ==
    IF a.m = 0 \/ b.m = 0 THEN F32Zero
    ELSE LET p == MagMul(F32Abs(a), F32Abs(b))
         IN  IF (a.m < 0) = (b.m < 0) THEN p ELSE F32Neg(p)

\* n further quotient bits of the long division by d, from the quotient q
\* and the remainder r < d found so far.
RECURSIVE DivBits(_, _, _, _)
DivBits(q, r, d, n) ==
    IF n = 0 THEN [q |-> q, r |-> r]
    ELSE IF 2 * r >= d THEN DivBits(2 * q + 1, 2 * r - d, d, n - 1)
                       ELSE DivBits(2 * q, 2 * r, d, n - 1)

\* a / b for a, b > 0.
MagDiv(a, b) ==
    LET n == IF a.m >= b.m THEN 23 ELSE 24
        x == DivBits(a.m \div b.m, a.m % b.m, b.m, n)
        u == IF 2 * x.r > b.m \/ (2 * x.r = b.m /\ x.q % 2 = 1)
             THEN x.q + 1 ELSE x.q
        e == a.e - b.e - n
    IN  IF u = TwoTo24 THEN [m |-> TwoTo23, e |-> e + 1]
                       ELSE [m |-> u, e |-> e]

\* a / b for b # 0.
F32Div(a, b) ==
    IF a.m = 0 THEN F32Zero
    ELSE LET p == MagDiv(F32Abs(a), F32Abs(b))
         IN  IF (a.m < 0) = (b.m < 0) THEN p ELSE F32Neg(p)

\* NANOS_PER_SEC as f32.
NANOS_PER_SEC_F32 == F32Of(NANOS_PER_SEC)

\* Duration::as_secs_f32: (secs as f32) + (nanos as f32) / (NANOS_PER_SEC as f32).
as_secs_f32(d) ==
    F32Add(F32Of(d.secs), F32Div(F32Of(d.nanos), NANOS_PER_SEC_F32))

\* AI::DECAY_RATE = 0.5 score per second.
DECAY_RATE == F32Norm(1, 0 - 1)
\* AI::ALLOWED_REQ_BURST = 3.0.
ALLOWED_REQ_BURST == F32Of(3)
\* The request cost of add_req_cost, 1.0.
REQ_COST == F32Of(1)

\* n * 0.5 as f32: the score caps of the specifications.
Halves(n) == F32Norm(n, 0 - 1)

(* ------------------------------ helpers -------------------------------- *)

Max(a, b) == IF a >= b THEN a ELSE b

\* Mutant of Elapsed: a clock error counts as no time elapsed.
Elapsed_ZeroOnError(last_req, t) ==
    IF TimeLeq(last_req, t) THEN TimeSub(t, last_req) ELSE Duration(0, 0)

\* last_req.elapsed().unwrap_or(INACTIVE_TIMESPAN) when elapsed() reads the
\* clock at t: Err (the timestamp lies after the clock reading) becomes
\* INACTIVE_TIMESPAN.
Elapsed(last_req, t) ==
    IF TimeLeq(last_req, t) THEN TimeSub(t, last_req) ELSE INACTIVE_TIMESPAN

\* StatsRecord::default() at clock reading t.
StatsDefault(t) == [score |-> F32Zero, last_req |-> t]

\* Mutant of TouchEntry: the timestamp of an existing record is not updated.
TouchEntry_InsertOnly(stats, explorer_id, t) ==
    IF explorer_id \in DOMAIN stats
    THEN stats
    ELSE [e \in (DOMAIN stats) \cup {explorer_id} |->
            IF e = explorer_id THEN StatsDefault(t) ELSE stats[e]]

\* Mutant of TouchEntry: the record is entered under the smallest id that is
\* tracked, whoever asks.
TouchEntry_WrongKey(stats, explorer_id, t) ==
    IF DOMAIN stats = {}
    THEN [e \in {explorer_id} |-> StatsDefault(t)]
    ELSE LET first == CHOOSE e \in DOMAIN stats : \A x \in DOMAIN stats : e <= x
         IN  [stats EXCEPT ![first].last_req = t]

\* self.explorer_stats.entry(id).and_modify(|s| s.last_req = now()).or_default()
\* when SystemTime::now() reads t.
TouchEntry(stats, explorer_id, t) ==
    IF explorer_id \in DOMAIN stats
    THEN [stats EXCEPT ![explorer_id].last_req = t]
    ELSE [e \in (DOMAIN stats) \cup {explorer_id} |->
            IF e = explorer_id THEN StatsDefault(t) ELSE stats[e]]

\* The score a record is left with by the decay pass when its elapsed() call
\* reads the clock at t:
\*   0.0_f32.max(score - DECAY_RATE * elapsed.as_secs_f32()).
Decayed(record, t) ==
    F32Max(F32Zero,
           F32Sub(record.score,
                  F32Mul(DECAY_RATE, as_secs_f32(Elapsed(record.last_req, t)))))

\* Mutant of decay_scores: an idle record loses 0.5, however long it is idle.
decay_scores_Flat(stats, at) ==
    [e \in DOMAIN stats |->
        [stats[e] EXCEPT
            !.score = IF Elapsed(stats[e].last_req, at[e]) = Duration(0, 0)
                      THEN stats[e].score
                      ELSE F32Max(F32Zero, F32Sub(stats[e].score, DECAY_RATE))]]

\* Mutant of decay_scores: the score is not clamped at 0.
decay_scores_NoClamp(stats, at) ==
    [e \in DOMAIN stats |->
        [stats[e] EXCEPT
            !.score = F32Sub(stats[e].score,
                             F32Mul(DECAY_RATE,
                                    as_secs_f32(Elapsed(stats[e].last_req, at[e]))))]]

\* Mutant of decay_scores: records that are idle for a contention window or
\* longer are dropped.
decay_scores_Evict(stats, at) ==
    [e \in {x \in DOMAIN stats :
              TimeLt(Elapsed(stats[x].last_req, at[x]), CONTENTION_WINDOW)} |->
        [stats[e] EXCEPT !.score = Decayed(stats[e], at[e])]]

\* AI::decay_scores when the elapsed() call for record e reads the clock at
\* at[e].
decay_scores(stats, at) ==
    [e \in DOMAIN stats |->
        [stats[e] EXCEPT !.score = Decayed(stats[e], at[e])]]

\* AI::add_req_cost: nothing happens for an id that is not in the map.
add_req_cost(stats, explorer_id) ==
    IF explorer_id \in DOMAIN stats
    THEN [stats EXCEPT ![explorer_id].score = F32Add(@, REQ_COST)]
    ELSE stats

\* AI::score (the caller unwraps it: the id is in the map).
score(stats, explorer_id) == stats[explorer_id].score

\* The orders in which a HashMap with the keys S can be iterated.
Orders(S) ==
    {o \in [1..Cardinality(S) -> S] :
        \A i, j \in 1..Cardinality(S) : o[i] = o[j] => i = j}

\* The sum of AI::avg_score after the first n records of the iteration:
\* sum = 0.0; for each record: sum += score.
RECURSIVE SumScores(_, _, _)
SumScores(stats, order, n) ==
    IF n = 0 THEN F32Zero
    ELSE F32Add(SumScores(stats, order, n - 1), stats[order[n]].score)

\* The sums that AI::avg_score can divide by the map's size: the f32 sum
\* depends on the order in which the HashMap is iterated.
score_sums(stats, S) ==
    {SumScores(stats, order, Cardinality(S)) : order \in Orders(S)}

\* AI::avg_score: sum / len as f32.
avg_score(sum, len) == F32Div(sum, F32Of(len))

\* The records active_explorers counts when the elapsed() call for record e
\* reads the clock at at[e].
ActiveSet(stats, at) ==
    {e \in DOMAIN stats :
        TimeLt(Elapsed(stats[e].last_req, at[e]), CONTENTION_WINDOW)}

\* Mutant of active_explorers: every tracked record counts, stale or not.
active_explorers_All(stats, at) == Cardinality(DOMAIN stats)

\* AI::active_explorers.
active_explorers(stats, at) == Cardinality(ActiveSet(stats, at))

\* score <= avg * tolerance as the code evaluates it in f32:
\*   avg = sum / len as f32,  tolerance = 1.0 + ALLOWED_REQ_BURST / active as f32.
\* With active = 0 the tolerance is 1.0 + 3.0 / 0.0 = +inf: the product is
\* +inf for a positive average (the test holds) and NaN for a zero average
\* (no comparison with NaN holds).
F32WithinTolerance(s, sum, len, active) ==
    IF active = 0 THEN F32Lt(F32Zero, sum)
    ELSE F32Leq(s, F32Mul(avg_score(sum, len),
                          F32Add(F32Of(1),
                                 F32Div(ALLOWED_REQ_BURST, F32Of(active)))))

\* Mutant of AccessGranted: the average is taken over the active records only.
AccessGranted_ActiveAvg(stats, explorer_id, at, sum) ==
    LET act == ActiveSet(stats, at)
        active == Cardinality(act)
    IN  \/ active = 1
        \/ active > 0
           /\ \E s \in score_sums(stats, act) :
                 F32WithinTolerance(score(stats, explorer_id), s, active, active)

\* The grant test of handle_explorer_msg:
\*   active == 1 || score(id) <= avg_score() * (1.0 + ALLOWED_REQ_BURST / active)
\* when the elapsed() call of active_explorers for record e reads the clock
\* at at[e] and the iteration of avg_score adds the scores up to sum.
AccessGranted(stats, explorer_id, at, sum) ==
    LET active == active_explorers(stats, at)
    IN  \/ active = 1
        \/ F32WithinTolerance(score(stats, explorer_id), sum,
                              Cardinality(DOMAIN stats), active)

(* ---------------------------- the cell store --------------------------- *)

ChargedCells(cs) == {i \in CellIdx : cs[i]}
charged_cells_count(cs) == Cardinality(ChargedCells(cs))

\* Some cell of the store is empty.
HasEmptyCell(cs) == \E i \in CellIdx : ~cs[i]

\* PlanetState::charge_cell on a store with an empty cell: the next empty
\* cell, in store order, is charged.  What the library does with a sunray
\* when every cell is charged is stated neither by the specification nor by
\* a test of the repository: the deliveries of the specifications below are
\* those to a store with an empty cell.
charge_cell(cs) ==
    LET i == CHOOSE k \in CellIdx : ~cs[k] /\ \A j \in CellIdx : j < k => cs[j]
    IN  [cs EXCEPT ![i] = TRUE]

\* PlanetState::to_dummy.
to_dummy(cs, r) ==
    [energy_cells |-> cs,
     charged_cells_count |-> charged_cells_count(cs),
     has_rocket |-> r # "None"]

\* Mutant of make_basic_resource: the cell keeps its charge.
make_basic_resource_KeepCharge(resource, cell, cs) ==
    [resource |-> resource, cells |-> cs]

\* make_basic_resource: the generator discharges the cell and the value is
\* wrapped in the variant of the requested type.
make_basic_resource(resource, cell, cs) ==
    [resource |-> resource, cells |-> [cs EXCEPT ![cell] = FALSE]]

(* ------------------------------ messages ------------------------------- *)

NoResource == "None"

GenMsg(explorer_id, resource) ==
    [type |-> "GenerateResourceRequest",
     explorer_id |-> explorer_id, resource |-> resource]

PlainMsg(type) == [type |-> type, explorer_id |-> 0, resource |-> NoResource]

GenResponse(resource) ==
    [type |-> "GenerateResourceResponse", resource |-> resource]

(* ------------------------------- Init ---------------------------------- *)

\* No admission has read the clock.
NoReads == [decay |-> <<>>, active |-> <<>>, sum |-> F32Zero, count |-> 0]

Init ==
    /\ limit_mode \in {"None", "FairShare"}
    /\ explorer_stats = <<>>
    /\ cells = [i \in CellIdx |-> FALSE]
    /\ now = SystemTime(0, 0)
    /\ msg = PlainMsg("StartPlanetAI")
    /\ response = [type |-> "StartPlanetAIResult"]
    /\ denied = {}
    /\ rocket = "None"
    /\ unspent = 0
    /\ reads = NoReads

\* History: a delivery that charged a cell is counted.
Delivered == unspent' = unspent + (IF cells' # cells THEN 1 ELSE 0)

\* History: a generation request answered with a resource is counted off.
Granted == unspent' = unspent - (IF response'.resource # NoResource THEN 1 ELSE 0)

(* ------------------------------ actions -------------------------------- *)

\* The clock advances by the Duration d between two handled messages.
Tick(d) ==
    /\ now' = TimeAdd(now, d)
    /\ msg' = PlainMsg("Tick")
    /\ response' = [type |-> "NoResponse"]
    /\ reads' = NoReads
    /\ UNCHANGED <<limit_mode, rocket, explorer_stats, cells, denied, unspent>>

\* Mutant of handle_sunray: the sunray is acknowledged and dropped.
handle_sunray_Drop ==
    /\ msg' = PlainMsg("Sunray")
    /\ response' = [type |-> "SunrayAck"]
    /\ reads' = NoReads
    /\ UNCHANGED <<limit_mode, rocket, explorer_stats, cells, now, denied, unspent>>

\* Mutant of handle_sunray: a charged cell is spent on building a rocket.
handle_sunray_BuildRocket ==
    /\ cells' = IF rocket = "None" THEN cells ELSE charge_cell(cells)
    /\ rocket' = "Rocket"
    /\ msg' = PlainMsg("Sunray")
    /\ response' = [type |-> "SunrayAck"]
    /\ Delivered
    /\ reads' = NoReads
    /\ UNCHANGED <<limit_mode, explorer_stats, now, denied>>

\* AI::handle_sunray.
handle_sunray ==
    /\ cells' = charge_cell(cells)
    /\ msg' = PlainMsg("Sunray")
    /\ response' = [type |-> "SunrayAck"]
    /\ reads' = NoReads
    /\ UNCHANGED <<limit_mode, rocket, explorer_stats, now, denied>>
    /\ Delivered

\* Mutant of handle_asteroid: a charged cell is spent on a rocket.
handle_asteroid_Defend ==
    /\ msg' = PlainMsg("Asteroid")
    /\ IF ChargedCells(cells) # {}
       THEN /\ cells' = [cells EXCEPT ![CHOOSE k \in ChargedCells(cells) : TRUE] = FALSE]
            /\ response' = [type |-> "AsteroidAck", rocket |-> "Rocket"]
       ELSE /\ cells' = cells
            /\ response' = [type |-> "AsteroidAck", rocket |-> "None"]
    /\ reads' = NoReads
    /\ UNCHANGED <<limit_mode, rocket, explorer_stats, now, denied, unspent>>

\* AI::handle_asteroid: no rocket, nothing changes.
handle_asteroid ==
    /\ msg' = PlainMsg("Asteroid")
    /\ response' = [type |-> "AsteroidAck", rocket |-> "None"]
    /\ reads' = NoReads
    /\ UNCHANGED <<limit_mode, rocket, explorer_stats, cells, now, denied, unspent>>

\* AI::handle_internal_state_req.
handle_internal_state_req ==
    /\ msg' = PlainMsg("InternalStateRequest")
    /\ response' = [type |-> "InternalStateResponse",
                    planet_state |-> to_dummy(cells, rocket)]
    /\ reads' = NoReads
    /\ UNCHANGED <<limit_mode, rocket, explorer_stats, cells, now, denied, unspent>>

\* PlanetState::full_cell: the first charged cell, if any.
HasFullCell(cs) == ChargedCells(cs) # {}
full_cell(cs) ==
    CHOOSE k \in ChargedCells(cs) : \A j \in ChargedCells(cs) : k <= j

\* Mutant of StatsAfterRequest: the decay pass runs before the timestamp
\* update.
StatsAfterRequest_DecayFirst(stats, explorer_id, t, at) ==
    add_req_cost(TouchEntry(decay_scores(stats, at), explorer_id, t), explorer_id)

\* The usage map after the timestamp update (SystemTime::now() reads t), the
\* decay pass (the elapsed() call for record e reads at[e]) and the cost.
StatsAfterRequest(stats, explorer_id, t, at) ==
    add_req_cost(decay_scores(TouchEntry(stats, explorer_id, t), at), explorer_id)

\* The readings of a clock that stands still while a request is handled.
Steady(S) == [e \in S |-> now]

\* Mutant of GenerateNoEnergy: the resource is handed out without a charged
\* cell.
GenerateNoEnergy_Unbacked(explorer_id, resource) ==
    /\ ~HasFullCell(cells)
    /\ msg' = GenMsg(explorer_id, resource)
    /\ response' = GenResponse(resource)
    /\ reads' = NoReads
    /\ UNCHANGED <<limit_mode, rocket, explorer_stats, cells, now, denied>>
    /\ Granted

\* Mutant of GenerateNoEnergy: under FairShare the usage record is updated
\* before the cell store is looked at.
GenerateNoEnergy_Accounted(explorer_id, resource) ==
    /\ ~HasFullCell(cells)
    /\ msg' = GenMsg(explorer_id, resource)
    /\ response' = GenResponse(NoResource)
    /\ explorer_stats' =
          IF limit_mode = "FairShare"
          THEN StatsAfterRequest(explorer_stats, explorer_id, now,
                                 Steady(DOMAIN explorer_stats \cup {explorer_id}))
          ELSE explorer_stats
    /\ reads' = NoReads
    /\ UNCHANGED <<limit_mode, rocket, cells, now, denied, unspent>>

\* handle_explorer_msg, GenerateResourceRequest, no charged cell.
GenerateNoEnergy(explorer_id, resource) ==
    /\ ~HasFullCell(cells)
    /\ msg' = GenMsg(explorer_id, resource)
    /\ response' = GenResponse(NoResource)
    /\ reads' = NoReads
    /\ UNCHANGED <<limit_mode, rocket, explorer_stats, cells, now, denied, unspent>>

\* Mutant of GenerateUnlimited: the requester is entered in the usage map.
GenerateUnlimited_Tracked(explorer_id, resource) ==
    /\ HasFullCell(cells)
    /\ limit_mode = "None"
    /\ LET made == make_basic_resource(resource, full_cell(cells), cells)
       IN  /\ cells' = made.cells
           /\ response' = GenResponse(made.resource)
    /\ explorer_stats' = TouchEntry(explorer_stats, explorer_id, now)
    /\ msg' = GenMsg(explorer_id, resource)
    /\ reads' = NoReads
    /\ UNCHANGED <<limit_mode, rocket, now, denied>>
    /\ Granted

\* handle_explorer_msg, GenerateResourceRequest, ExplorerRequestLimit::None.
GenerateUnlimited(explorer_id, resource) ==
    /\ HasFullCell(cells)
    /\ limit_mode = "None"
    /\ LET made == make_basic_resource(resource, full_cell(cells), cells)
       IN  /\ cells' = made.cells
           /\ response' = GenResponse(made.resource)
    /\ msg' = GenMsg(explorer_id, resource)
    /\ reads' = NoReads
    /\ UNCHANGED <<limit_mode, rocket, explorer_stats, now, denied>>
    /\ Granted

\* What the admission has read: the readings of the two passes, the sum of
\* avg_score and the count active_explorers() returned.
Reads(decay, active, sum, count) ==
    [decay |-> decay, active |-> active, sum |-> sum, count |-> count]

\* Mutant of GenerateFairShare: the cell is discharged before the decision.
GenerateFairShare_DischargeFirst(explorer_id, resource, decay, active, last) ==
    /\ HasFullCell(cells)
    /\ limit_mode = "FairShare"
    /\ now' = active[last]
    /\ LET stats == StatsAfterRequest(explorer_stats, explorer_id, now, decay)
           made  == make_basic_resource(resource, full_cell(cells), cells)
       IN  /\ explorer_stats' = stats
           /\ cells' = made.cells
           /\ \E sum \in score_sums(stats, DOMAIN stats) :
                 /\ reads' = Reads(decay, active, sum,
                                  active_explorers(stats, active))
                 /\ IF AccessGranted(stats, explorer_id, active, sum)
                    THEN /\ response' = GenResponse(made.resource)
                         /\ denied' = denied
                    ELSE /\ response' = GenResponse(NoResource)
                         /\ denied' = denied \cup {explorer_id}
    /\ msg' = GenMsg(explorer_id, resource)
    /\ UNCHANGED <<limit_mode, rocket>>
    /\ Granted

\* Mutant of GenerateFairShare: a refused request is not charged its cost.
GenerateFairShare_CostOnGrant(explorer_id, resource, decay, active, last) ==
    /\ HasFullCell(cells)
    /\ limit_mode = "FairShare"
    /\ now' = active[last]
    /\ LET decayed == decay_scores(TouchEntry(explorer_stats, explorer_id, now), decay)
           stats == add_req_cost(decayed, explorer_id)
           made  == make_basic_resource(resource, full_cell(cells), cells)
       IN  \E sum \in score_sums(stats, DOMAIN stats) :
              /\ reads' = Reads(decay, active, sum,
                                  active_explorers(stats, active))
              /\ IF AccessGranted(stats, explorer_id, active, sum)
                 THEN /\ explorer_stats' = stats
                      /\ cells' = made.cells
                      /\ response' = GenResponse(made.resource)
                      /\ denied' = denied
                 ELSE /\ explorer_stats' = decayed
                      /\ cells' = cells
                      /\ response' = GenResponse(NoResource)
                      /\ denied' = denied \cup {explorer_id}
    /\ msg' = GenMsg(explorer_id, resource)
    /\ UNCHANGED <<limit_mode, rocket>>
    /\ Granted

\* Mutant of GenerateFairShare: a refusal names its cause.
GenerateFairShare_DenialReason(explorer_id, resource, decay, active, last) ==
    /\ HasFullCell(cells)
    /\ limit_mode = "FairShare"
    /\ now' = active[last]
    /\ LET stats == StatsAfterRequest(explorer_stats, explorer_id, now, decay)
           made  == make_basic_resource(resource, full_cell(cells), cells)
       IN  /\ explorer_stats' = stats
           /\ \E sum \in score_sums(stats, DOMAIN stats) :
                 /\ reads' = Reads(decay, active, sum,
                                  active_explorers(stats, active))
                 /\ IF AccessGranted(stats, explorer_id, active, sum)
                    THEN /\ cells' = made.cells
                         /\ response' = GenResponse(made.resource)
                         /\ denied' = denied
                    ELSE /\ cells' = cells
                         /\ response' = [type |-> "GenerateResourceResponse",
                                         resource |-> NoResource,
                                         reason |-> "RateLimited"]
                         /\ denied' = denied \cup {explorer_id}
    /\ msg' = GenMsg(explorer_id, resource)
    /\ UNCHANGED <<limit_mode, rocket>>
    /\ Granted

\* handle_explorer_msg, GenerateResourceRequest, ExplorerRequestLimit::FairShare.
\* The handler reads the clock 1 + 2 * len times: SystemTime::now() for the
\* timestamp update (the reading `now`), then one elapsed() per record in
\* the decay pass (decay[e] for record e) and one per record in
\* active_explorers (active[e]); the clock is left at the reading taken
\* last, for the record `last` that active_explorers visits last.  The sum
\* of avg_score is any of the sums an iteration of the map can give.
GenerateFairShare(explorer_id, resource, decay, active, last) ==
    /\ HasFullCell(cells)
    /\ limit_mode = "FairShare"
    /\ now' = active[last]
    /\ LET stats == StatsAfterRequest(explorer_stats, explorer_id, now, decay)
           made  == make_basic_resource(resource, full_cell(cells), cells)
       IN  /\ explorer_stats' = stats
           /\ \E sum \in score_sums(stats, DOMAIN stats) :
                 /\ reads' = Reads(decay, active, sum,
                                  active_explorers(stats, active))
                 /\ IF AccessGranted(stats, explorer_id, active, sum)
                    THEN /\ cells' = made.cells
                         /\ response' = GenResponse(made.resource)
                         /\ denied' = denied
                    ELSE /\ cells' = cells
                         /\ response' = GenResponse(NoResource)
                         /\ denied' = denied \cup {explorer_id}
    /\ msg' = GenMsg(explorer_id, resource)
    /\ UNCHANGED <<limit_mode, rocket>>
    /\ Granted

\* handle_explorer_msg, GenerateResourceRequest.
handle_generate(explorer_id, resource, decay, active, last) ==
    \/ GenerateNoEnergy(explorer_id, resource)
    \/ GenerateUnlimited(explorer_id, resource)
    \/ GenerateFairShare(explorer_id, resource, decay, active, last)

\* handle_explorer_msg, SupportedResourceRequest.
handle_supported_resource ==
    /\ msg' = PlainMsg("SupportedResourceRequest")
    /\ response' = [type |-> "SupportedResourceResponse",
                    resource_list |-> gen_rules]
    /\ reads' = NoReads
    /\ UNCHANGED <<limit_mode, rocket, explorer_stats, cells, now, denied, unspent>>

\* handle_explorer_msg, SupportedCombinationRequest.
handle_supported_combination ==
    /\ msg' = PlainMsg("SupportedCombinationRequest")
    /\ response' = [type |-> "SupportedCombinationResponse",
                    combination_list |-> comb_rules]
    /\ reads' = NoReads
    /\ UNCHANGED <<limit_mode, rocket, explorer_stats, cells, now, denied, unspent>>

\* Mutant of handle_available_energy_cell: the query uses up a charged cell.
handle_available_energy_cell_Consume ==
    /\ msg' = PlainMsg("AvailableEnergyCellRequest")
    /\ response' = [type |-> "AvailableEnergyCellResponse",
                    available_cells |-> to_dummy(cells, rocket).charged_cells_count]
    /\ cells' = IF HasFullCell(cells)
                THEN [cells EXCEPT ![full_cell(cells)] = FALSE]
                ELSE cells
    /\ reads' = NoReads
    /\ UNCHANGED <<limit_mode, rocket, explorer_stats, now, denied, unspent>>

\* Mutant of handle_available_energy_cell: the number of cells is reported.
handle_available_energy_cell_Capacity ==
    /\ msg' = PlainMsg("AvailableEnergyCellRequest")
    /\ response' = [type |-> "AvailableEnergyCellResponse",
                    available_cells |-> NumCells]
    /\ reads' = NoReads
    /\ UNCHANGED <<limit_mode, rocket, explorer_stats, cells, now, denied, unspent>>

\* handle_explorer_msg, AvailableEnergyCellRequest.
handle_available_energy_cell ==
    /\ msg' = PlainMsg("AvailableEnergyCellRequest")
    /\ response' = [type |-> "AvailableEnergyCellResponse",
                    available_cells |-> to_dummy(cells, rocket).charged_cells_count]
    /\ reads' = NoReads
    /\ UNCHANGED <<limit_mode, rocket, explorer_stats, cells, now, denied, unspent>>

(* ------------------------ combination requests ------------------------- *)

\* The values a combination request carries: the two inputs of one request
\* are two distinct resource values.
Payloads == {1, 2}

\* The variants of ComplexResourceRequest.
ComplexRequestShapes ==
    {"Water", "Diamond", "Life", "Robot", "Dolphin", "AIPartner"}

\* ComplexResourceRequest::shape(first, second).
ComplexResourceRequest(shape, first, second) ==
    [shape |-> shape, first |-> first, second |-> second]

ComplexResourceRequests ==
    {ComplexResourceRequest(s, p[1], p[2]) :
        s \in ComplexRequestShapes,
        p \in {q \in Payloads \X Payloads : q[1] # q[2]}}

\* GenericResource::kind(type(value)), kind being BasicResources or
\* ComplexResources.
GenericResource(kind, type, value) ==
    [kind |-> kind, type |-> type, value |-> value]

\* Mutant of extract_generic_resources: the two Carbon inputs of Diamond are
\* returned in the opposite order.
extract_generic_resources_DiamondSwapped(request) ==
    CASE request.shape = "Water" ->
           <<GenericResource("BasicResources", "Hydrogen", request.first),
             GenericResource("BasicResources", "Oxygen", request.second)>>
      [] request.shape = "Diamond" ->
           <<GenericResource("BasicResources", "Carbon", request.second),
             GenericResource("BasicResources", "Carbon", request.first)>>
      [] request.shape = "Life" ->
           <<GenericResource("ComplexResources", "Water", request.first),
             GenericResource("BasicResources", "Carbon", request.second)>>
      [] request.shape = "Robot" ->
           <<GenericResource("BasicResources", "Silicon", request.first),
             GenericResource("ComplexResources", "Life", request.second)>>
      [] request.shape = "Dolphin" ->
           <<GenericResource("ComplexResources", "Water", request.first),
             GenericResource("ComplexResources", "Life", request.second)>>
      [] request.shape = "AIPartner" ->
           <<GenericResource("ComplexResources", "Robot", request.first),
             GenericResource("ComplexResources", "Diamond", request.second)>>

\* extract_generic_resources.
extract_generic_resources(request) ==
    CASE request.shape = "Water" ->
           <<GenericResource("BasicResources", "Hydrogen", request.first),
             GenericResource("BasicResources", "Oxygen", request.second)>>
      [] request.shape = "Diamond" ->
           <<GenericResource("BasicResources", "Carbon", request.first),
             GenericResource("BasicResources", "Carbon", request.second)>>
      [] request.shape = "Life" ->
           <<GenericResource("ComplexResources", "Water", request.first),
             GenericResource("BasicResources", "Carbon", request.second)>>
      [] request.shape = "Robot" ->
           <<GenericResource("BasicResources", "Silicon", request.first),
             GenericResource("ComplexResources", "Life", request.second)>>
      [] request.shape = "Dolphin" ->
           <<GenericResource("ComplexResources", "Water", request.first),
             GenericResource("ComplexResources", "Life", request.second)>>
      [] request.shape = "AIPartner" ->
           <<GenericResource("ComplexResources", "Robot", request.first),
             GenericResource("ComplexResources", "Diamond", request.second)>>

CombineMsg(request) ==
    [type |-> "CombineResourceRequest", explorer_id |-> 0,
     resource |-> NoResource, request |-> request]

\* CombineResourceResponse { complex_response: Err((reason, first, second)) }.
CombineRefusal(reason, first, second) ==
    [type |-> "CombineResourceResponse",
     complex_response |->
        [ok |-> FALSE, reason |-> reason, first |-> first, second |-> second]]

\* Mutant of handle_combine: a charged cell is spent on the attempt.
handle_combine_Attempt(request) ==
    /\ LET input_resources == extract_generic_resources(request)
       IN  response' = CombineRefusal("This planet type can't combine resources.",
                                      input_resources[1], input_resources[2])
    /\ msg' = CombineMsg(request)
    /\ cells' = IF HasFullCell(cells)
                THEN [cells EXCEPT ![full_cell(cells)] = FALSE]
                ELSE cells
    /\ reads' = NoReads
    /\ UNCHANGED <<limit_mode, rocket, explorer_stats, now, denied, unspent>>

\* handle_explorer_msg, CombineResourceRequest.
handle_combine(request) ==
    /\ LET input_resources == extract_generic_resources(request)
       IN  response' = CombineRefusal("This planet type can't combine resources.",
                                      input_resources[1], input_resources[2])
    /\ msg' = CombineMsg(request)
    /\ reads' = NoReads
    /\ UNCHANGED <<limit_mode, rocket, explorer_stats, cells, now, denied, unspent>>

(* --------------------------- specifications ---------------------------- *)

\* The steps of the clock between two handled messages: FineTick
\* nanoseconds, and a second.
FineTick == Duration(0, 400)
TickSteps == {FineTick, Duration(1, 0)}

\* The time between two successive clock readings of one handler, in
\* nanoseconds, on a clock that runs while the request is handled.
ReadStep == Duration(0, 200)

\* The clock reading t lies within the run of the clock, which ends at secs.
InRun(t, secs, nanos) ==
    /\ TimeLeq(SystemTime(0, 0), t)
    /\ t.secs <= secs
    /\ t.nanos <= nanos

\* Time passes between two handled messages, by one of the steps given.  The
\* runs explored are those in which the clock first runs by whole seconds,
\* to MaxTime at most, and from then on by steps of less than a second, the
\* handlers' own readings included, to MaxNanos at most.
ClockRuns(steps) ==
    \E d \in steps :
       /\ InRun(TimeAdd(now, d), MaxTime, MaxNanos)
       /\ d.nanos = 0 => now.nanos = 0
       /\ Tick(d)

\* The keys of the usage map when the request of explorer_id is decided.
Tracked(explorer_id) == DOMAIN explorer_stats \cup {explorer_id}

\* The k-th clock reading after SystemTime::now() of a handler, step
\* nanoseconds passing between two successive readings.
Reading(k, step) == TimeAdd(now, Duration(0, k * step.nanos))

\* The readings of the decay pass and of the active count, per record: the
\* decay pass takes the readings 1..len and the active count the readings
\* len+1..2*len, in the order of the iteration.
DecayReads(order, step) ==
    [e \in {order[i] : i \in 1..Len(order)} |->
        Reading(CHOOSE i \in 1..Len(order) : order[i] = e, step)]
ActiveReads(order, step) ==
    [e \in {order[i] : i \in 1..Len(order)} |->
        Reading(Len(order) + (CHOOSE i \in 1..Len(order) : order[i] = e), step)]

\* The score explorer_id holds before a request (0 when it is not tracked).
ScoreBefore(explorer_id) ==
    IF explorer_id \in DOMAIN explorer_stats
    THEN explorer_stats[explorer_id].score ELSE F32Zero

\* Requests are issued while the requester's score, with the cost of the
\* request added, stays within cap (in units of 0.5).
WithinCap(explorer_id, cap) ==
    F32Leq(F32Add(ScoreBefore(explorer_id), REQ_COST), Halves(cap))

\* Every kind of message but the combination request (see SpecCombine),
\* both limiting modes, on a clock that runs by whole seconds and stands
\* still while a message is handled.
Next ==
    \/ ClockRuns({Duration(1, 0)})
    \/ HasEmptyCell(cells) /\ handle_sunray
    \/ handle_asteroid
    \/ handle_internal_state_req
    \/ \E e \in TwoExplorers, r \in gen_rules :
          /\ WithinCap(e, MaxScore)
          /\ handle_generate(e, r, Steady(Tracked(e)), Steady(Tracked(e)), e)
    \/ handle_supported_resource
    \/ handle_supported_combination
    \/ handle_available_energy_cell

Spec == Init /\ [][Next]_vars

\* Combination requests among deliveries and generation requests, both
\* limiting modes.
NextCombine ==
    \/ ClockRuns({Duration(1, 0)})
    \/ HasEmptyCell(cells) /\ handle_sunray
    \/ \E e \in TwoExplorers :
          /\ WithinCap(e, MaxScore)
          /\ handle_generate(e, "Oxygen", Steady(Tracked(e)),
                             Steady(Tracked(e)), e)
    \/ \E request \in ComplexResourceRequests : handle_combine(request)

SpecCombine == Init /\ [][NextCombine]_vars

\* A FairShare request of explorer e on a clock that stands still while the
\* request is handled.
SteadyClockRequest(e) ==
    GenerateFairShare(e, "Oxygen", Steady(Tracked(e)), Steady(Tracked(e)), e)

\* A FairShare request of explorer e on a clock that runs: ReadStep
\* nanoseconds pass between two successive readings of the handler, which
\* visits the records in any order.
RunningClockRequest(e) ==
    \E order \in Orders(Tracked(e)) :
       /\ InRun(Reading(2 * Len(order), ReadStep), MaxTime, MaxNanos)
       /\ GenerateFairShare(e, "Oxygen", DecayReads(order, ReadStep),
                            ActiveReads(order, ReadStep), order[Len(order)])

\* A FairShare request of explorer e during which the wall clock is set
\* back by d right after SystemTime::now() has given the timestamp: the
\* elapsed() calls of the decay pass and of active_explorers() read the
\* clock d earlier.
SetBackClockRequest(e, d) ==
    LET back == [x \in Tracked(e) |-> TimeSub(now, d)]
    IN  /\ InRun(TimeSub(now, d), MaxTimeBack, 0)
        /\ GenerateFairShare(e, "Oxygen", back, back, e)

\* Generation requests contending under FairShare.  A sunray is delivered
\* whenever no cell is charged.
InitFair == Init /\ limit_mode = "FairShare"

NextFair ==
    \/ ClockRuns({Duration(1, 0)})
    \/ ~HasFullCell(cells) /\ handle_sunray
    \/ \E e \in Explorers :
          /\ WithinCap(e, MaxScoreFair)
          /\ \/ GenerateNoEnergy(e, "Oxygen")
             \/ SteadyClockRequest(e)
             \/ RunningClockRequest(e)

SpecFair == InitFair /\ [][NextFair]_vars

\* Generation requests contending under FairShare on a wall clock that
\* runs by whole seconds, to MaxTimeBack at most, and is set back by a
\* second while a request is handled.  The requests during which the clock
\* is set back are those of the explorer of SetBackFor (the ids play no part
\* in the handling of a request).  A sunray is delivered whenever no cell is
\* charged.
SetBackFor == {1}

NextBack ==
    \/ /\ InRun(TimeAdd(now, Duration(1, 0)), MaxTimeBack, 0)
       /\ Tick(Duration(1, 0))
    \/ ~HasFullCell(cells) /\ handle_sunray
    \/ \E e \in Explorers :
          /\ WithinCap(e, MaxScoreBack)
          /\ \/ SteadyClockRequest(e)
             \/ e \in SetBackFor /\ SetBackClockRequest(e, Duration(1, 0))

SpecBack == InitFair /\ [][NextBack]_vars

\* Two explorers contending under FairShare.  A sunray is delivered
\* whenever no cell is charged.
NextTwo ==
    \/ ClockRuns(TickSteps)
    \/ ~HasFullCell(cells) /\ handle_sunray
    \/ \E e \in TwoExplorers :
          /\ WithinCap(e, MaxScoreTwo)
          /\ \/ GenerateNoEnergy(e, "Oxygen")
             \/ SteadyClockRequest(e)
             \/ RunningClockRequest(e)

SpecTwo == InitFair /\ [][NextTwo]_vars

\* FairShare requests under a wall clock that can be set back or forth,
\* between two handled messages or between two clock readings of the
\* handling of a request (SystemTime is the wall clock and is not
\* monotonic).  The sunrays are delivered before the first request is
\* handled, MaxChargedClock at most.
ClockBack(d) ==
    /\ now' = TimeSub(now, d)
    /\ msg' = PlainMsg("ClockBack")
    /\ response' = [type |-> "NoResponse"]
    /\ reads' = NoReads
    /\ UNCHANGED <<limit_mode, rocket, explorer_stats, cells, denied, unspent>>

\* The steps by which the wall clock is set, back or forth.
ClockSteps == {ReadStep}

\* The readings the clock can give while one request is handled at `now`:
\* ReadStep nanoseconds before or after, within the run of the clock.
ClockReadings ==
    {t \in {now, TimeAdd(now, ReadStep), TimeSub(now, ReadStep)} :
        InRun(t, 0, MaxNanosClock)}

NextClock ==
    \/ \E d \in ClockSteps :
          InRun(TimeAdd(now, d), 0, MaxNanosClock) /\ Tick(d)
    \/ \E d \in ClockSteps :
          InRun(TimeSub(now, d), 0, MaxNanosClock) /\ ClockBack(d)
    \/ /\ explorer_stats = <<>>
       /\ charged_cells_count(cells) < MaxChargedClock
       /\ handle_sunray
    \/ \E e \in TwoExplorers :
          /\ WithinCap(e, MaxScoreClock)
          /\ \/ GenerateNoEnergy(e, "Oxygen")
             \/ \E decay \in [Tracked(e) -> ClockReadings],
                   active \in [Tracked(e) -> ClockReadings],
                   last \in Tracked(e) :
                  GenerateFairShare(e, "Oxygen", decay, active, last)

SpecClock == InitFair /\ [][NextClock]_vars

\* FairShare requests in runs without an end.  The handlers read the clock
\* only through last_req.elapsed(), so time that passes is modelled by
\* moving every timestamp into the past while `now` stays put.  A record
\* older than MaxAge is kept at that age: it is not active (MaxAge >=
\* CONTENTION_WINDOW) and every decay pass brings it to 0 (its score is at
\* most MaxScoreStarve * 0.5 and it loses 0.5 per second of age), at any age
\* from MaxAge on.
MaxAge == Duration(Max(CONTENTION_WINDOW.secs, MaxScoreStarve), 0)

\* The Duration d passes.
TickShift(d) ==
    /\ explorer_stats' =
          [e \in DOMAIN explorer_stats |->
              [explorer_stats[e] EXCEPT
                  !.last_req =
                      IF TimeLt(TimeSub(@, d), TimeSub(now, MaxAge))
                      THEN TimeSub(now, MaxAge)
                      ELSE TimeSub(@, d)]]
    /\ msg' = PlainMsg("Tick")
    /\ response' = [type |-> "NoResponse"]
    /\ reads' = NoReads
    /\ UNCHANGED <<limit_mode, rocket, cells, now, denied, unspent>>

\* The nanosecond part of the age of every record is within MaxNanosStarve.
FineAges(stats) ==
    \A e \in DOMAIN stats :
        Elapsed(stats[e].last_req, now).nanos <= MaxNanosStarve

\* Every score is a multiple of 0.5.
OnHalves(stats) ==
    \A e \in DOMAIN stats :
        \E k \in 0..MaxScoreStarve : stats[e].score = Halves(k)

\* A sunray is delivered whenever no cell is charged.  The steps of less
\* than a second are explored while every score is a multiple of 0.5, which
\* keeps the scores reached finite in number.
NextStarve ==
    \/ \E d \in TickSteps :
          /\ d.nanos # 0 => OnHalves(explorer_stats)
          /\ TickShift(d)
          /\ FineAges(explorer_stats')
    \/ ~HasFullCell(cells) /\ handle_sunray
    \/ \E e \in Explorers :
          /\ WithinCap(e, MaxScoreStarve)
          /\ \/ GenerateNoEnergy(e, "Oxygen")
             \/ SteadyClockRequest(e)

\* Time passes: the clock never stops.
SpecStarve ==
    InitFair /\ [][NextStarve]_vars /\ WF_vars(TickShift(Duration(1, 0)))


\* One explorer among four that have fallen silent, under FairShare.  The
\* explorers of Crowd ask at the start only, before the explorer of Sole has
\* asked, each once tracked before the next asks for the first time, and
\* while their score stays within MaxScore; the explorer of Sole asks at any
\* time.  The wall clock
\* runs by whole seconds and can be set back by a second between two
\* handled messages, to one second before the planet was created at most.
\* Sunrays are delivered while fewer than MaxChargedSole cells are charged.
Crowd == 1..4
Sole == {5}

NextSole ==
    \/ ClockRuns({Duration(1, 0)})
    \/ /\ TimeLeq(SystemTime(0, 0), now)
       /\ ClockBack(Duration(1, 0))
    \/ /\ charged_cells_count(cells) < MaxChargedSole
       /\ handle_sunray
    \/ \E e \in Crowd :
          /\ now = SystemTime(0, 0)
          /\ DOMAIN explorer_stats \subseteq Crowd
          /\ \A x \in Crowd : x < e => x \in DOMAIN explorer_stats
          /\ WithinCap(e, MaxScore)
          /\ SteadyClockRequest(e)
    \/ \E e \in Sole :
          /\ WithinCap(e, MaxScoreSole)
          /\ SteadyClockRequest(e)

SpecSole == InitFair /\ [][NextSole]_vars
(* ------------------------------- claims -------------------------------- *)

\* The step handles a generation request.
GenStep == msg'.type = "GenerateResourceRequest"

\* The step handles a generation request that reaches the admission
\* controller: FairShare mode and a charged cell at arrival.
AdmissionStep ==
    /\ GenStep
    /\ limit_mode = "FairShare"
    /\ \E i \in CellIdx : cells[i]

\* The latest step handled a generation request.
GenHandled == msg.type = "GenerateResourceRequest"

\* The explorers of stats whose last request is less than 3 s old when the
\* clock reads at[e] for the record of e.
FreshAt(stats, at) ==
    {e \in DOMAIN stats :
        /\ TimeLeq(stats[e].last_req, at[e])
        /\ TimeLt(TimeSub(at[e], stats[e].last_req), Duration(3, 0))}

\* activeCount = 1, or score(e) <= avgScore * (1 + 3.0 / activeCount) in
\* f32: avgScore is sum / n over all n tracked explorers, and activeCount
\* is the number of fresh ones.  With activeCount = 0 the quotient 3.0 / 0
\* is +inf in f32, and so is the tolerance: every score is at most
\* avgScore * +inf when avgScore is above 0, and none is when avgScore is 0
\* (the product is NaN).
WithinTolerance(stats, e, at, sum) ==
    LET k == Cardinality(FreshAt(stats, at))
        n == Cardinality(DOMAIN stats)
        avgScore == F32Div(sum, F32Of(n))
    IN  \/ k = 1
        \/ /\ k = 0
           /\ F32Lt(F32Zero, avgScore)
        \/ /\ k > 1
           /\ F32Leq(stats[e].score,
                     F32Mul(avgScore,
                            F32Add(F32Of(1), F32Div(F32Of(3), F32Of(k)))))

\* C1: in FairShare mode a generation request that arrives while a cell is
\* charged is granted if and only if, on the usage map as it stands after
\* the timestamp update, the decay pass and the cost addition, the number of
\* explorers with a request less than 3 s old is 1 or the requester's score
\* is at most the mean score of all tracked explorers (stale ones included)
\* times 1 + 3 / that number; the mean is the sum of all the scores, added
\* up in f32 in some order, divided by their number.  The wall clock can be
\* set back while the request is handled: a record stamped after the clock
\* reading taken for it is not counted, and when no record is counted the
\* tolerance is 1 + 3.0 / 0 = +inf in f32 and the request is granted.
C1_GrantedIffWithinTolerance ==
    [][AdmissionStep =>
         /\ reads'.sum \in score_sums(explorer_stats', DOMAIN explorer_stats')
         /\ (response'.resource # NoResource)
               <=> WithinTolerance(explorer_stats', msg'.explorer_id,
                                   reads'.active, reads'.sum)]_vars

\* C1 witness: a request is refused while one of the three records of the
\* map is 3 s old and not counted, so the active count (2) differs from the
\* number of records averaged (3); the handler counted 2 as well.
C1_Witness ==
    /\ GenHandled
    /\ limit_mode = "FairShare"
    /\ response.resource = NoResource
    /\ HasFullCell(cells)
    /\ Cardinality(DOMAIN explorer_stats) = 3
    /\ DOMAIN reads.active = DOMAIN explorer_stats
    /\ Cardinality(FreshAt(explorer_stats, reads.active)) = 2
    /\ reads.count = 2
    /\ \E o \in DOMAIN explorer_stats :
          TimeLeq(TimeAdd(explorer_stats[o].last_req, Duration(3, 0)),
                  reads.active[o])

\* C2: under FairShare with exactly two explorers, when one of them has sent
\* 5 requests in rapid succession and the other 1 request among them, each
\* with a cell charged (all within the first second, in which a score decays
\* by less than 0.5: a score above 4.0 counts 5 requests and a score above
\* 0 counts 1; the latest request is one of the 5, so the single request
\* came before it), the one request was granted and at least one of the 5
\* was refused.
C2_HeavyRequesterIsRefused ==
    \A a \in TwoExplorers, b \in TwoExplorers :
        ( /\ a # b
          /\ now.secs = 0
          /\ GenHandled /\ msg.explorer_id = a
          /\ DOMAIN explorer_stats = {a, b}
          /\ F32Lt(F32Of(4), explorer_stats[a].score)
          /\ F32Leq(explorer_stats[a].score, F32Of(5))
          /\ F32Lt(F32Zero, explorer_stats[b].score)
          /\ F32Leq(explorer_stats[b].score, F32Of(1)) )
        => (a \in denied /\ b \notin denied)

\* |x - y| in f32.
Gap(x, y) == F32Abs(F32Sub(x, y))

\* C3: under FairShare with two explorers that are both active within the
\* contention window, the gap between their scores stays below a fixed
\* bound; the bound tried is the largest score the requests of SpecTwo can
\* build up, MaxScoreTwo * 0.5.
C3_ScoreGapBounded ==
    \A a \in TwoExplorers, b \in TwoExplorers :
        ( /\ a # b
          /\ DOMAIN explorer_stats = {a, b}
          /\ FreshAt(explorer_stats, Steady({a, b})) = {a, b} )
        => F32Lt(Gap(explorer_stats[a].score, explorer_stats[b].score),
                 Halves(MaxScoreTwo))

\* The record of o is not active when elapsed() reads the clock at t for
\* it: 3 s or more have elapsed since its timestamp, or the timestamp lies
\* after the reading and elapsed() fails (unwrap_or(INACTIVE_TIMESPAN)).
InactiveAt(stats, o, t) ==
    ~TimeLt(Elapsed(stats[o].last_req, t), CONTENTION_WINDOW)

\* C4: in FairShare mode, a generation request that arrives while a cell is
\* charged and while no other tracked explorer is active (the last request
\* of each is 3 s old or older, or its age cannot be measured because the
\* clock was set back) is granted, whatever the requester's score and
\* however many records of silent explorers the map holds; so consecutive
\* requests of a single active explorer, each against a charged cell, are
\* all granted.
C4_SoleActiveRequesterGranted ==
    [][( /\ AdmissionStep
         /\ \A o \in DOMAIN explorer_stats :
               o # msg'.explorer_id
               => InactiveAt(explorer_stats, o, reads'.active[o]) )
       => response'.resource = msg'.resource]_vars

\* C4 witness: the second of two consecutive requests of explorer 5 is
\* granted at a score of 2.0 while the map holds the records of four other
\* explorers, none of them active: the handler counted one active explorer,
\* and with that count the tolerance test alone (2.0 against 0.4 * 4) would
\* have refused.
C4_Witness ==
    /\ GenHandled
    /\ limit_mode = "FairShare"
    /\ response.resource = msg.resource
    /\ msg.explorer_id \in Sole
    /\ msg.explorer_id \in DOMAIN explorer_stats
    /\ explorer_stats[msg.explorer_id].score = Halves(4)
    /\ Cardinality(DOMAIN explorer_stats) = 5
    /\ DOMAIN reads.active = DOMAIN explorer_stats
    /\ \A o \in DOMAIN explorer_stats :
          o # msg.explorer_id
          => InactiveAt(explorer_stats, o, reads.active[o])
    /\ reads.count = 1
    /\ ~F32Leq(explorer_stats[msg.explorer_id].score,
               F32Mul(F32Div(reads.sum, F32Of(5)), F32Of(4)))

\* C5: a generation request handled while no cell is charged returns "no
\* resource" in both modes and leaves the cell store and the usage map as
\* they were.
C5_NoEnergyNoResourceNoAccounting ==
    [][(GenStep /\ \A i \in CellIdx : ~cells[i])
       => /\ response'.resource = NoResource
          /\ cells' = cells
          /\ explorer_stats' = explorer_stats]_vars

\* C5 witness: under FairShare, with other explorers tracked, a request of
\* an untracked explorer has met an empty cell store and left no record.
C5_Witness ==
    /\ GenHandled
    /\ limit_mode = "FairShare"
    /\ response.resource = NoResource
    /\ ~HasFullCell(cells)
    /\ DOMAIN explorer_stats # {}
    /\ msg.explorer_id \notin DOMAIN explorer_stats

\* C6: every granted generation request returns a resource of the requested
\* category and discharges exactly one cell, all other cells keeping their
\* state, so that the charged-cell count drops by one; and a request that
\* finds the count at 0 gets "no resource".
C6_GrantDischargesOneCell ==
    /\ [][(GenStep /\ response'.resource # NoResource)
          => /\ response'.resource = msg'.resource
             /\ \E i \in CellIdx :
                   cells[i] /\ cells' = [cells EXCEPT ![i] = FALSE]
             /\ charged_cells_count(cells') = charged_cells_count(cells) - 1]_vars
    /\ [][(GenStep /\ charged_cells_count(cells) = 0)
          => response'.resource = NoResource]_vars

\* C6 witness: a grant of Silicon has brought the charged-cell count to 0.
C6_Witness ==
    /\ GenHandled
    /\ msg.resource = "Silicon"
    /\ response.resource = "Silicon"
    /\ charged_cells_count(cells) = 0

\* C7: in Unrestricted mode the usage map is empty in every reachable state
\* and every generation request that arrives while a cell is charged is
\* granted.
C7_UnrestrictedAlwaysGrants ==
    /\ [](limit_mode = "None" => DOMAIN explorer_stats = {})
    /\ [][(GenStep /\ limit_mode = "None" /\ \E i \in CellIdx : cells[i])
          => response'.resource = msg'.resource]_vars

\* C7 witness: Unrestricted mode has granted a request with cells to spare.
C7_Witness ==
    /\ GenHandled
    /\ limit_mode = "None"
    /\ response.resource = msg.resource
    /\ charged_cells_count(cells) >= 2
    /\ now = SystemTime(MaxTime, 0)

\* The store with cells 0..n-1 charged and the others empty.
Prefix(n) == [i \in CellIdx |-> i < n]

\* C8: a new planet has no charged cell; a delivery that finds cells 0..n-1
\* charged and the others empty (n < 5) leaves cells 0..n charged and the
\* others empty; and a state query on such a store reports count n and that
\* bitmap.  Hence N deliveries from a new planet, with no other event, are
\* reported as count N with the first N cells charged.
C8_DeliveriesChargeInOrder ==
    /\ cells = Prefix(0)
    /\ [][msg'.type = "Sunray"
          => \A n \in 0..(NumCells - 1) :
                cells = Prefix(n) => cells' = Prefix(n + 1)]_vars
    /\ [][msg'.type = "InternalStateRequest"
          => \A n \in 0..NumCells :
                cells = Prefix(n)
                => /\ response'.planet_state.charged_cells_count = n
                   /\ response'.planet_state.energy_cells = Prefix(n)]_vars

\* C8 witness: a state query has reported 3 charged cells, cells 0..2.
C8_Witness ==
    /\ msg.type = "InternalStateRequest"
    /\ response.planet_state.charged_cells_count = 3
    /\ response.planet_state.energy_cells = Prefix(3)
    /\ DOMAIN explorer_stats = {}

\* C9: a FairShare request that the admission controller refuses (a cell is
\* charged, and the requester is outside the tolerance, which is +inf when
\* no record is counted as active) leaves every cell as it was and is
\* answered "no resource".
C9_DenialKeepsCells ==
    [][(AdmissionStep
          /\ ~WithinTolerance(explorer_stats', msg'.explorer_id,
                              reads'.active, reads'.sum))
       => /\ cells' = cells
          /\ response'.resource = NoResource]_vars

\* C9 witness: a request has been refused by the admission controller, two
\* explorers or more being counted as active, and the charged cell is still
\* charged.
C9_Witness ==
    /\ GenHandled
    /\ limit_mode = "FairShare"
    /\ response.resource = NoResource
    /\ HasFullCell(cells)
    /\ msg.explorer_id \in denied
    /\ DOMAIN reads.active = DOMAIN explorer_stats
    /\ ~WithinTolerance(explorer_stats, msg.explorer_id,
                        reads.active, reads.sum)
    /\ reads.count >= 2

\* max(0, s - 0.5 * seconds) in f32, for the Duration idle.
Lowered(s, idle) ==
    LET d == F32Sub(s, F32Mul(Halves(1), as_secs_f32(idle)))
    IN  IF F32Lt(d, F32Zero) THEN F32Zero ELSE d

\* C10: whenever the admission controller processes a request, granted or
\* refused, the requester's score ends at its score after the decay pass
\* (its earlier score, 0 for a new record, less 0.5 per second since the
\* timestamp the record now carries, not below 0) plus the cost 1.0, the
\* sum being rounded to f32.
C10_CostChargedOnEveryRequest ==
    [][AdmissionStep
       => LET e == msg'.explorer_id
              before == IF e \in DOMAIN explorer_stats
                        THEN explorer_stats[e].score ELSE F32Zero
              idle == TimeSub(reads'.decay[e], explorer_stats'[e].last_req)
          IN  explorer_stats'[e].score
                 = F32Add(Lowered(before, idle), F32Of(1))]_vars

\* C10 witness: a refused request has raised a score of 0.5 to 1.5.
C10_Witness ==
    /\ GenHandled
    /\ limit_mode = "FairShare"
    /\ response.resource = NoResource
    /\ HasFullCell(cells)
    /\ msg.explorer_id \in DOMAIN explorer_stats
    /\ explorer_stats[msg.explorer_id].score = Halves(3)

\* The idle periods after which two decay passes of one record are
\* compared (in nanoseconds): periods that differ by a nanosecond, by a
\* millisecond and by a second.
IdleNanos == {0, 1, 1000001, NANOS_PER_SEC}
IdlePeriods ==
    {Duration(n \div NANOS_PER_SEC, n % NANOS_PER_SEC) : n \in IdleNanos}

\* The scores up to which the resolution of f32 is finer than the decay of
\* a millisecond.
ScoreLimit == F32Of(1024)

\* The score a decay pass gives the record of e when the pass reads the
\* clock the Duration idle after the record's timestamp.
DecayedAfter(e, idle) ==
    decay_scores([x \in {e} |-> explorer_stats[x]],
                 [x \in {e} |-> TimeAdd(explorer_stats[e].last_req, idle)])[e].score

\* One millisecond.
Millisecond == Duration(0, 1000000)

\* C11 as stated: the score of a tracked explorer never increases in a step
\* that is not a generation request of that explorer; a decay pass (a
\* FairShare request of another explorer that reaches the admission
\* controller) that finds the explorer idle for some time with a positive
\* score leaves it strictly lower; and of two decay passes of the same
\* record the one after the longer idle period gives the strictly lower
\* score unless the earlier one already gives 0 (compared on the map a
\* request leaves: the map changes in no other step).
C11_DecayStrictlyMonotone ==
    /\ [][\A e \in DOMAIN explorer_stats :
            ~(GenStep /\ msg'.explorer_id = e)
            => F32Leq(explorer_stats'[e].score, explorer_stats[e].score)]_vars
    /\ [][AdmissionStep
          => \A e \in DOMAIN explorer_stats :
                ( /\ e # msg'.explorer_id
                  /\ F32Lt(F32Zero, explorer_stats[e].score)
                  /\ TimeLt(explorer_stats[e].last_req, reads'.decay[e]) )
                => F32Lt(explorer_stats'[e].score, explorer_stats[e].score)]_vars
    /\ [](GenHandled => \A e \in DOMAIN explorer_stats :
            \A s \in IdlePeriods :
               LET shorter == DecayedAfter(e, s)
               IN  \A t \in IdlePeriods :
                      (TimeLt(s, t) /\ F32Lt(F32Zero, shorter))
                      => F32Lt(DecayedAfter(e, t), shorter))

\* C11, amended: the score of a tracked explorer never increases in a step
\* that is not a generation request of that explorer; a decay pass that
\* finds the explorer idle for a millisecond or more with a positive score
\* leaves it strictly lower; and of two decay passes of the same record the
\* one after the longer idle period never gives the higher score, and it
\* gives the strictly lower score, unless the earlier one already gives 0,
\* when the idle periods differ by a millisecond or more.  (Scores are f32
\* values below 1024: a decay below the resolution of the score leaves it
\* as it is.  The passes are compared on the map a request leaves: the map
\* changes in no other step.)
C11_DecayMonotone ==
    /\ [][\A e \in DOMAIN explorer_stats :
            ~(GenStep /\ msg'.explorer_id = e)
            => F32Leq(explorer_stats'[e].score, explorer_stats[e].score)]_vars
    /\ [][AdmissionStep
          => \A e \in DOMAIN explorer_stats :
                ( /\ e # msg'.explorer_id
                  /\ F32Lt(F32Zero, explorer_stats[e].score)
                  /\ F32Lt(explorer_stats[e].score, ScoreLimit)
                  /\ TimeLeq(TimeAdd(explorer_stats[e].last_req, Millisecond),
                             reads'.decay[e]) )
                => F32Lt(explorer_stats'[e].score, explorer_stats[e].score)]_vars
    /\ [](GenHandled => \A e \in DOMAIN explorer_stats :
            \A s \in IdlePeriods :
               LET shorter == DecayedAfter(e, s)
               IN  \A t \in IdlePeriods :
                      (TimeLt(s, t) /\ F32Lt(explorer_stats[e].score, ScoreLimit))
                      => LET longer == DecayedAfter(e, t)
                         IN  /\ F32Leq(longer, shorter)
                             /\ ( /\ TimeLeq(TimeAdd(s, Millisecond), t)
                                  /\ F32Lt(F32Zero, shorter) )
                                => F32Lt(longer, shorter))

\* C11 witness: a request of another explorer has left a record that is one
\* second idle at 0.5, one decay of 0.5 below the 1.0 of its request.
C11_Witness ==
    /\ GenHandled
    /\ limit_mode = "FairShare"
    /\ HasFullCell(cells) \/ response.resource # NoResource
    /\ \E e \in DOMAIN explorer_stats :
          /\ e # msg.explorer_id
          /\ explorer_stats[e].score = Halves(1)
          /\ TimeSub(now, explorer_stats[e].last_req) = Duration(1, 0)

\* C12: in every reachable state the score of every tracked explorer is at
\* least 0.
C12_ScoresNonNegative ==
    \A e \in DOMAIN explorer_stats : F32Leq(F32Zero, explorer_stats[e].score)

\* C12 witness: a decay pass 3 s after an explorer's last request has left
\* that explorer at 0, the score at which the pass clamps.
C12_Witness ==
    /\ GenHandled
    /\ response.resource # NoResource
    /\ msg.explorer_id \in DOMAIN explorer_stats
    /\ explorer_stats[msg.explorer_id].last_req = now
    /\ \E e \in DOMAIN explorer_stats :
          /\ e # msg.explorer_id
          /\ explorer_stats[e].score = F32Zero
          /\ TimeSub(now, explorer_stats[e].last_req) = Duration(3, 0)

\* C13 as stated: every generation request handled in FairShare mode leaves
\* a record of the requester whose timestamp is the time of the request.
C13_EveryRequestLeavesRecord ==
    [][(GenStep /\ limit_mode = "FairShare")
       => /\ msg'.explorer_id \in DOMAIN explorer_stats'
          /\ explorer_stats'[msg'.explorer_id].last_req = now]_vars

\* C13, amended: every generation request handled in FairShare mode while a
\* cell is charged leaves a record of the requester whose timestamp is the
\* time of the request; the record of an explorer that had none is created
\* with score 0, to which the cost of the request is added.  (A request
\* handled while no cell is charged creates and updates no record.)
C13_AdmittedRequestLeavesRecord ==
    [][AdmissionStep
       => /\ msg'.explorer_id \in DOMAIN explorer_stats'
          /\ explorer_stats'[msg'.explorer_id].last_req = now
          /\ msg'.explorer_id \notin DOMAIN explorer_stats
             => explorer_stats'[msg'.explorer_id].score
                   = F32Add(F32Zero, F32Of(1))]_vars

\* C13 witness: a later request of a tracked explorer, at 2 s, has moved its
\* timestamp to the time of that request; its score is 1.5.
C13_Witness ==
    /\ GenHandled
    /\ limit_mode = "FairShare"
    /\ response.resource # NoResource
    /\ now = SystemTime(2, 0)
    /\ msg.explorer_id \in DOMAIN explorer_stats
    /\ explorer_stats[msg.explorer_id].last_req = SystemTime(2, 0)
    /\ explorer_stats[msg.explorer_id].score = Halves(3)

\* C14: whenever a grant/deny decision is computed (a FairShare request
\* with a cell charged), the usage map the decision reads is not empty and
\* holds a record of the requester.
C14_RequesterTrackedAtDecision ==
    [][AdmissionStep
       => /\ Cardinality(DOMAIN explorer_stats') >= 1
          /\ \E e \in DOMAIN explorer_stats' : e = msg'.explorer_id]_vars

\* C14 witness: the first request ever handled has been decided on a map
\* that holds the requester alone.
C14_Witness ==
    /\ GenHandled
    /\ limit_mode = "FairShare"
    /\ response.resource = msg.resource
    /\ DOMAIN explorer_stats = {msg.explorer_id}
    /\ explorer_stats[msg.explorer_id].score = REQ_COST
    /\ denied = {}

\* C15: whenever the tolerance is computed (a FairShare request with a cell
\* charged), the number of active explorers counted at the clock readings of
\* that count is at least 1, for every clock reading.
C15_ActiveCountAtLeastOne ==
    [][AdmissionStep
       => /\ active_explorers(explorer_stats', reads'.active) >= 1
          /\ Cardinality(FreshAt(explorer_stats', reads'.active)) >= 1]_vars

\* The two inputs of each recipe shape, as kind and type.
RecipeInputs(shape) ==
    CASE shape = "Water"     -> <<<<"BasicResources", "Hydrogen">>,
                                  <<"BasicResources", "Oxygen">>>>
      [] shape = "Diamond"   -> <<<<"BasicResources", "Carbon">>,
                                  <<"BasicResources", "Carbon">>>>
      [] shape = "Life"      -> <<<<"ComplexResources", "Water">>,
                                  <<"BasicResources", "Carbon">>>>
      [] shape = "Robot"     -> <<<<"BasicResources", "Silicon">>,
                                  <<"ComplexResources", "Life">>>>
      [] shape = "Dolphin"   -> <<<<"ComplexResources", "Water">>,
                                  <<"ComplexResources", "Life">>>>
      [] shape = "AIPartner" -> <<<<"ComplexResources", "Robot">>,
                                  <<"ComplexResources", "Diamond">>>>

CombineStep == msg'.type = "CombineResourceRequest"
CombineHandled == msg.type = "CombineResourceRequest"

\* C16: a combination request is refused in every state and in both
\* limiting modes: the response is a refusal (never a success) that carries
\* a reason text and the two inputs, and the cell store and the usage map
\* are left as they were.
C16_CombinationAlwaysRefused ==
    [][CombineStep
       => /\ response'.type = "CombineResourceResponse"
          /\ ~response'.complex_response.ok
          /\ response'.complex_response.reason # ""
          /\ {response'.complex_response.first.value,
              response'.complex_response.second.value}
                = {msg'.request.first, msg'.request.second}
          /\ cells' = cells
          /\ explorer_stats' = explorer_stats]_vars

\* C16 witness: a combination request has been refused under FairShare with
\* a cell charged and an explorer tracked.
C16_Witness ==
    /\ CombineHandled
    /\ limit_mode = "FairShare"
    /\ ~response.complex_response.ok
    /\ HasFullCell(cells)
    /\ DOMAIN explorer_stats # {}

\* C17: for each of the six recipe shapes and each pair of input values,
\* the pair returned by the decomposition is the first input, tagged with
\* the kind and type of the recipe's first input, followed by the second
\* input, tagged with the kind and type of the recipe's second input; and
\* the refusal of a combination request carries that pair.
C17_DecompositionRoundTrip ==
    /\ [](\A shape \in {"Water", "Diamond", "Life", "Robot", "Dolphin", "AIPartner"} :
            \A a \in Payloads, b \in Payloads :
               LET pair == extract_generic_resources(
                              [shape |-> shape, first |-> a, second |-> b])
               IN  /\ Len(pair) = 2
                   /\ pair[1] = [kind  |-> RecipeInputs(shape)[1][1],
                                 type  |-> RecipeInputs(shape)[1][2],
                                 value |-> a]
                   /\ pair[2] = [kind  |-> RecipeInputs(shape)[2][1],
                                 type  |-> RecipeInputs(shape)[2][2],
                                 value |-> b])
    /\ [][CombineStep
          => LET rq == msg'.request
                 r  == response'.complex_response
             IN  /\ r.first.value = rq.first
                 /\ r.second.value = rq.second
                 /\ <<r.first.kind, r.first.type>> = RecipeInputs(rq.shape)[1]
                 /\ <<r.second.kind, r.second.type>> = RecipeInputs(rq.shape)[2]]_vars

\* C17 witness: the refusal of Diamond(2, 1) has returned the value 2 first
\* and the value 1 second, both as basic Carbon.
C17_Witness ==
    /\ CombineHandled
    /\ msg.request = [shape |-> "Diamond", first |-> 2, second |-> 1]
    /\ response.complex_response.first
          = [kind |-> "BasicResources", type |-> "Carbon", value |-> 2]
    /\ response.complex_response.second
          = [kind |-> "BasicResources", type |-> "Carbon", value |-> 1]

\* C18: every generation request that yields no resource, whether it was
\* refused by the fairness policy with a cell charged or found no cell
\* charged, gets one and the same response, GenerateResourceResponse with
\* resource = None and nothing else in it.
C18_FailuresIndistinguishable ==
    [][(GenStep /\ response'.resource = NoResource)
       => response' = [type |-> "GenerateResourceResponse", resource |-> "None"]]_vars

\* C18 witness: an explorer that the fairness policy has refused before now
\* gets the same response because no cell is charged.
C18_Witness ==
    /\ GenHandled
    /\ ~HasFullCell(cells)
    /\ msg.explorer_id \in denied
    /\ response = [type |-> "GenerateResourceResponse", resource |-> "None"]

\* C19: an asteroid returns no rocket and leaves the cell store and the
\* usage map as they were, in every state.
C19_AsteroidHasNoEffect ==
    [][msg'.type = "Asteroid"
       => /\ response'.rocket = "None"
          /\ cells' = cells
          /\ explorer_stats' = explorer_stats]_vars

\* C19 witness: an asteroid has been answered with no rocket while cells
\* are charged and an explorer is tracked.
C19_Witness ==
    /\ msg.type = "Asteroid"
    /\ response.rocket = "None"
    /\ charged_cells_count(cells) >= 2
    /\ DOMAIN explorer_stats # {}

\* The four kinds of query.
Queries ==
    {"InternalStateRequest", "SupportedResourceRequest",
     "SupportedCombinationRequest", "AvailableEnergyCellRequest"}

\* C20: a state query, a supported-resource query, a supported-combination
\* query and an availability query leave every cell's charge and every
\* score and timestamp of the usage map as they were, in both limiting
\* modes.
C20_QueriesAreReadOnly ==
    [][msg'.type \in Queries
       => /\ \A i \in CellIdx : cells'[i] = cells[i]
          /\ DOMAIN explorer_stats' = DOMAIN explorer_stats
          /\ \A e \in DOMAIN explorer_stats :
                /\ explorer_stats'[e].score = explorer_stats[e].score
                /\ explorer_stats'[e].last_req = explorer_stats[e].last_req]_vars

\* C20 witness: an availability query has been answered under FairShare
\* with cells charged and an explorer tracked.
C20_Witness ==
    /\ msg.type = "AvailableEnergyCellRequest"
    /\ limit_mode = "FairShare"
    /\ response.available_cells >= 1
    /\ HasFullCell(cells)
    /\ DOMAIN explorer_stats # {}

\* C21: an availability query returns the number of cells that are charged
\* at that moment, and a state query reports the same number: 0 on a new
\* planet, one more after each delivery that finds an empty cell, one less
\* after each granted generation.
C21_AvailabilityIsChargedCount ==
    /\ [][msg'.type = "AvailableEnergyCellRequest"
          => response'.available_cells = Cardinality({i \in CellIdx : cells[i]})]_vars
    /\ [][msg'.type = "InternalStateRequest"
          => response'.planet_state.charged_cells_count
                = Cardinality({i \in CellIdx : cells[i]})]_vars

\* C21 witness: after deliveries and a granted generation that emptied cell
\* 0, an availability query has returned 2 with cells 1 and 2 charged.
C21_Witness ==
    /\ msg.type = "AvailableEnergyCellRequest"
    /\ response.available_cells = 2
    /\ cells = [i \in CellIdx |-> i \in {1, 2}]

\* C22: in every state a supported-resource query returns exactly Carbon,
\* Silicon, Oxygen and Hydrogen, and a supported-combination query returns
\* the empty set.
C22_CapabilitiesAsConfigured ==
    /\ [][msg'.type = "SupportedResourceRequest"
          => response'.resource_list = {"Carbon", "Silicon", "Oxygen", "Hydrogen"}]_vars
    /\ [][msg'.type = "SupportedCombinationRequest"
          => response'.combination_list = {}]_vars

\* C22 witness: the four categories have been returned under FairShare
\* after a generation was granted and with a cell charged.
C22_Witness ==
    /\ msg.type = "SupportedResourceRequest"
    /\ Cardinality(response.resource_list) = 4
    /\ limit_mode = "FairShare"
    /\ DOMAIN explorer_stats # {}
    /\ HasFullCell(cells)

\* C24: an explorer that is in the usage map is in the usage map after
\* every step.
C24_RecordsNeverEvicted ==
    [][\A e \in DOMAIN explorer_stats : e \in DOMAIN explorer_stats']_vars

\* C24 witness: three explorers are tracked after a request was handled
\* while the record of one of them was 3 s old with score 0.
C24_Witness ==
    /\ GenHandled
    /\ HasFullCell(cells)
    /\ Cardinality(DOMAIN explorer_stats) = 3
    /\ \E e \in DOMAIN explorer_stats :
          /\ TimeSub(now, explorer_stats[e].last_req) = Duration(3, 0)
          /\ explorer_stats[e].score = F32Zero

\* The score of r before the request (0 for a new record).
Before(r) ==
    IF r \in DOMAIN explorer_stats THEN explorer_stats[r].score ELSE F32Zero

\* Every tracked explorer but r keeps its timestamp and its score becomes
\* max(0, score - 0.5 * seconds since its timestamp), the seconds being
\* taken at the clock reading of the decay pass for the record.
OthersDecay(r) ==
    \A o \in DOMAIN explorer_stats \ {r} :
        /\ explorer_stats'[o].last_req = explorer_stats[o].last_req
        /\ explorer_stats'[o].score
              = Lowered(explorer_stats[o].score,
                        TimeSub(reads'.decay[o], explorer_stats[o].last_req))

\* The time the decay pass measures for a record stamped last_req when it
\* reads the clock at t: the time from last_req to t, and 3 s when t lies
\* before last_req.
Measured(last_req, t) ==
    IF TimeLt(t, last_req) THEN Duration(3, 0) ELSE TimeSub(t, last_req)

\* Every tracked explorer but r keeps its timestamp and its score becomes
\* max(0, score - 0.5 * seconds measured since its timestamp).
OthersDecayMeasured(r) ==
    \A o \in DOMAIN explorer_stats \ {r} :
        /\ explorer_stats'[o].last_req = explorer_stats[o].last_req
        /\ explorer_stats'[o].score
              = Lowered(explorer_stats[o].score,
                        Measured(explorer_stats[o].last_req, reads'.decay[o]))

\* C25 as stated: in one FairShare request handled with a cell charged, the
\* requester's timestamp becomes the time of the request and its score its
\* score before the request (0 for a new record) plus 1.0, with no decay;
\* every other tracked explorer's score becomes max(0, score - 0.5 * seconds
\* since its timestamp) and its timestamp stays.
C25_RequesterUndecayed ==
    [][AdmissionStep
       => LET r == msg'.explorer_id
          IN  /\ explorer_stats'[r].last_req = now
              /\ explorer_stats'[r].score = F32Add(Before(r), F32Of(1))
              /\ OthersDecay(r)]_vars

\* C25, amended: in one FairShare request handled with a cell charged, the
\* requester's timestamp becomes the time of the request before the decay
\* pass, so the requester's own score is decayed only for the time the
\* decay pass measures since that new timestamp (no time when the clock
\* gives both readings the same value, in which case the final score is the
\* score before the request plus 1.0) and then raised by 1.0; every other
\* tracked explorer's score becomes max(0, score - 0.5 * seconds measured
\* since its timestamp) and its timestamp stays.  The time measured since
\* a timestamp is the time from the timestamp to the clock reading of the
\* decay pass for the record, and 3 s when the reading lies before the
\* timestamp.
C25_TimestampBeforeDecay ==
    [][AdmissionStep
       => LET r == msg'.explorer_id
          IN  /\ explorer_stats'[r].last_req = now
              /\ explorer_stats'[r].score
                    = F32Add(Lowered(Before(r), Measured(now, reads'.decay[r])),
                             F32Of(1))
              /\ reads'.decay[r] = now
                 => explorer_stats'[r].score = F32Add(Before(r), F32Of(1))
              /\ OthersDecayMeasured(r)]_vars

\* C25 witness: the second request of an explorer has been handled while
\* the clock ran: the decay pass read the clock 200 ns after the timestamp
\* update and the requester's score is below 2.0, the 1.0 it held having
\* been decayed before the cost was added; the other tracked explorer, with
\* a timestamp that is not later, holds a score above 0.
C25_Witness ==
    /\ GenHandled
    /\ limit_mode = "FairShare"
    /\ msg.explorer_id \in DOMAIN explorer_stats
    /\ msg.explorer_id \in DOMAIN reads.decay
    /\ TimeLt(explorer_stats[msg.explorer_id].last_req,
              reads.decay[msg.explorer_id])
    /\ F32Lt(Halves(3), explorer_stats[msg.explorer_id].score)
    /\ F32Lt(explorer_stats[msg.explorer_id].score, Halves(4))
    /\ \E o \in DOMAIN explorer_stats :
          /\ o # msg.explorer_id
          /\ TimeLeq(explorer_stats[o].last_req,
                     explorer_stats[msg.explorer_id].last_req)
          /\ F32Lt(F32Zero, explorer_stats[o].score)

\* C26: when a FairShare request is handled with a cell charged under a
\* clock that is set while the request is handled or between two requests,
\* the handler answers, every record whose timestamp lies after the clock
\* reading of its decay has lost 1.5 (not below 0) in the decay pass, and
\* the number of active explorers the handler counts is the number of
\* records whose timestamp lies at most 0 and less than 3 s before the
\* clock reading taken for the record in the count, the records with a
\* later timestamp not being counted.
C26_ClockErrorFallback ==
    [][AdmissionStep
       => LET r == msg'.explorer_id
          IN  /\ response'.type = "GenerateResourceResponse"
              /\ \A o \in DOMAIN explorer_stats' :
                    LET lost == F32Sub(Before(o), Halves(3))
                        decayed == IF F32Lt(lost, F32Zero) THEN F32Zero ELSE lost
                    IN  TimeLt(reads'.decay[o], explorer_stats'[o].last_req)
                        => explorer_stats'[o].score
                              = (IF o = r THEN F32Add(decayed, F32Of(1))
                                 ELSE decayed)
              /\ reads'.count
                    = Cardinality(FreshAt(explorer_stats', reads'.active))]_vars

\* C26 witness: a request has been handled while the clock reading of the
\* decay of the other record, and the reading taken for it in the count, lay
\* before its timestamp; the other record, at 2.0 after two requests, has
\* lost 1.5 and stands at 0.5, and the handler counted the requester only.
C26_Witness ==
    /\ GenHandled
    /\ response.resource = msg.resource
    /\ limit_mode = "FairShare"
    /\ reads.count = 1
    /\ \E o \in DOMAIN explorer_stats :
          /\ o # msg.explorer_id
          /\ o \in DOMAIN reads.decay
          /\ TimeLt(reads.decay[o], explorer_stats[o].last_req)
          /\ TimeLt(reads.active[o], explorer_stats[o].last_req)
          /\ explorer_stats[o].score = Halves(1)

\* C28: the idle time of an explorer is decayed at most once.  When a decay
\* pass has already run at the present clock reading (another explorer's
\* timestamp is the present reading) after explorer b's last request, a
\* further request of another explorer handled at the same reading (the
\* decay pass reads the clock for b's record at that reading), over which
\* no time has elapsed, takes nothing more off b's score.
C28_IdleTimeDecayedOnce ==
    [][AdmissionStep
       => \A b \in DOMAIN explorer_stats :
             ( /\ b # msg'.explorer_id
               /\ TimeLt(explorer_stats[b].last_req, now)
               /\ reads'.decay[b] = now
               /\ \E a \in DOMAIN explorer_stats :
                     a # b /\ explorer_stats[a].last_req = now )
             => explorer_stats'[b].score = explorer_stats[b].score]_vars

\* C29: in FairShare mode a generation request that arrives while a cell is
\* charged from an explorer whose score before the request is 0 (a tracked
\* explorer at 0, or an explorer without a record) is granted.
C29_ZeroScoreRequesterGranted ==
    [][( /\ AdmissionStep
         /\ \/ msg'.explorer_id \notin DOMAIN explorer_stats
            \/ explorer_stats[msg'.explorer_id].score = F32Zero )
       => response'.resource = msg'.resource]_vars

\* C23: a newly created planet has 5 energy cells, none charged, and no
\* rocket; in every reachable state the cell store has 5 cells, no rocket
\* is present and the state snapshot reports none.
C23_FiveCellsNoRocket ==
    /\ \A i \in CellIdx : ~cells[i]
    /\ rocket = "None"
    /\ [](/\ Cardinality(DOMAIN cells) = 5
          /\ rocket = "None"
          /\ ~to_dummy(cells, rocket).has_rocket
          /\ response.type = "InternalStateResponse"
                => /\ Cardinality(DOMAIN response.planet_state.energy_cells) = 5
                   /\ ~response.planet_state.has_rocket)

\* C23 witness: a state query answered while every one of the 5 cells is
\* charged: 5 cells and no rocket.
C23_Witness ==
    /\ response.type = "InternalStateResponse"
    /\ response.planet_state.charged_cells_count = 5
    /\ Cardinality(DOMAIN cells) = 5
    /\ rocket = "None"

\* C27: under every interleaving of deliveries and generation requests
\* the granted requests never outnumber the deliveries that charged a
\* cell (the difference is the number of charged cells); a granted request
\* empties exactly one cell and only a delivery charges one, so that from
\* k charged cells and without a delivery at most k requests are granted.
C27_GrantsNeverExceedCharges ==
    /\ [](unspent >= 0 /\ unspent = charged_cells_count(cells))
    /\ [][(msg'.type = "GenerateResourceRequest"
             /\ response'.resource # NoResource)
          => charged_cells_count(cells') = charged_cells_count(cells) - 1]_vars
    /\ [][msg'.type # "Sunray"
          => charged_cells_count(cells') <= charged_cells_count(cells)]_vars

\* C27 witness: under FairShare, with one explorer on record, another
\* explorer's request finds no charged cell and is sent away: as many
\* requests have been granted as deliveries have charged a cell.
C27_Witness ==
    /\ msg.type = "GenerateResourceRequest"
    /\ response.resource = NoResource
    /\ unspent = 0
    /\ charged_cells_count(cells) = 0
    /\ limit_mode = "FairShare"
    /\ Cardinality(DOMAIN explorer_stats) = 1
    /\ msg.explorer_id \notin DOMAIN explorer_stats

\* The latest step handled a generation request of explorer e that found a
\* charged cell (it was granted, or it was refused and the cell is still
\* charged).
AskedBy(e) ==
    /\ GenHandled
    /\ msg.explorer_id = e
    /\ response.resource # NoResource \/ HasFullCell(cells)

\* C30: no total starvation.  In FairShare mode, if from some point on a
\* cell is always charged and explorers 1 and 2 both keep issuing generation
\* requests, then again and again a request is granted.
C30_NoTotalStarvation ==
    ( /\ <>[]HasFullCell(cells)
      /\ []<>AskedBy(1)
      /\ []<>AskedBy(2) )
    => []<>(GenHandled /\ response.resource # NoResource)
====
